---- MODULE Spec2Model ----
(***************************************************************************)
(* A model of mailman_rss.py.                                              *)
(*                                                                         *)
(* Spec:    main()'s month loop with MailmanArchive.get_month, up to the   *)
(*          call of printrss.  A message is identified by its month and    *)
(*          its position in the month's mbox.                              *)
(* SpecRss: printrss(archive, mails) with get_title and get_part_field,    *)
(*          for any archive and any list of messages.                      *)
(*                                                                         *)
(* Text is a sequence of tokens (see the text helpers); None is NoneVal.   *)
(* An uncaught Python exception ends the run in the control state          *)
(* "raised" with the exception recorded.                                   *)
(***************************************************************************)
EXTENDS Integers, Sequences, FiniteSets, TLC

\* ------------------------------------------------------------------ bounds
MaxMonths == 2
MaxPerMonth == 3
MaxCount == 5
MaxNegCount == 2

VARIABLES
  \* main()
  months,            \* the month archives in index order, each its mbox's messages
  count,             \* options.count
  pc,                \* position of main()
  idx,               \* position of "for month_url in months"
  mails,             \* the accumulator
  fetched,           \* the month indexes fetch() returned a blob for, in order
  tmpfiles,          \* staging files present on disk
  openfds,           \* staging files whose descriptor is open
  exc,               \* the uncaught exception, if any
  \* printrss()
  archive,           \* the MailmanArchive: archive_url and the parsed index document
  rmails,            \* printrss's parameter mails
  fp,                \* the lines written so far
  rpc,               \* position of printrss()
  ri,                \* position of "for mail in mails"
  pubdate_rendered,
  rexc               \* the exception printrss raised, if any

mainVars == <<months, count, pc, idx, mails, fetched, tmpfiles, openfds, exc>>
rssVars == <<archive, rmails, fp, rpc, ri, pubdate_rendered, rexc>>
vars == <<months, count, pc, idx, mails, fetched, tmpfiles, openfds, exc,
          archive, rmails, fp, rpc, ri, pubdate_rendered, rexc>>

\* None, where a text or None is expected
NoneVal == <<"None">>
\* no exception raised
NoExc == "none"

\* ------------------------------------------------------- sequence helpers
Min(a, b) == IF a < b THEN a ELSE b
Max(a, b) == IF a > b THEN a ELSE b

\* list.reverse()
Reverse(s) == [i \in 1..Len(s) |-> s[Len(s) + 1 - i]]

\* Python's s[:n], n possibly negative
SliceTo(s, n) ==
  IF n >= 0 THEN SubSeq(s, 1, Min(n, Len(s)))
  ELSE SubSeq(s, 1, Max(0, Len(s) + n))

\* ------------------------------------------------------------------ main()
\* The messages of the month at position k when its mbox holds n of them, in
\* container order (oldest first).
MonthOf(k, n) == [i \in 1..n |-> <<k, i>>]

MonthLists ==
  UNION {[1..len -> 0..MaxPerMonth] : len \in 0..MaxMonths}

\* get_month: the staging file and descriptor left by a call that ends with
\* `outcome`, and whether it returned an mbox.
GetMonthOutcomes == {"ok", "fetch_fail", "gzip_fail", "write_fail", "mbox_fail"}

get_month(f, files, fds, outcome) ==
  IF outcome = "fetch_fail"                          \* line 87 raises
  THEN [files |-> files, fds |-> fds, ok |-> FALSE, fetched |-> FALSE]
  ELSE
    LET files1 == files \cup {f}                     \* line 89 mkstemp
        fds1 == fds \cup {f}                         \* line 91 fdopen
    IN IF outcome \in {"gzip_fail", "write_fail"}    \* line 92 / 93 raises
       THEN [files |-> files1, fds |-> fds1, ok |-> FALSE, fetched |-> TRUE]
       ELSE
         LET fds2 == fds1 \ {f}                      \* line 94 close
         IN IF outcome = "mbox_fail"                 \* line 96 raises
            THEN [files |-> files1, fds |-> fds2, ok |-> FALSE, fetched |-> TRUE]
            ELSE [files |-> files1 \ {f},            \* line 97 remove
                  fds |-> fds2, ok |-> TRUE, fetched |-> TRUE]

\* A month list appended in container order, the reversal forgotten.
MonthNotReversed(month) == month

\* month.reverse()
MonthReversed(month) == Reverse(month)

\* The loop left only once the accumulator exceeds the count.
LoopBreaksLate(ms, c) == Len(ms) > c

\* "if len(mails) >= options.count: break"
LoopBreaks(ms, c) == Len(ms) >= c

\* "if len(mails) > options.count: mails = mails[:options.count]"
Trimmed(ms, c) == IF Len(ms) > c THEN SliceTo(ms, c) ELSE ms

Init ==
  /\ months \in MonthLists
  /\ count \in (0 - MaxNegCount)..MaxCount
  /\ pc = "start"
  /\ idx = 1
  /\ mails = <<>>
  /\ fetched = <<>>
  /\ tmpfiles = {}
  /\ openfds = {}
  /\ exc = NoExc
  /\ archive = <<>>
  /\ rmails = <<>>
  /\ fp = <<>>
  /\ rpc = "idle"
  /\ ri = 1
  /\ pubdate_rendered = FALSE
  /\ rexc = NoExc

\* lines 221-227
CheckMonths ==
  /\ pc = "start"
  /\ pc' = IF Len(months) = 0 THEN "exit1" ELSE "loop"
  /\ UNCHANGED <<months, count, idx, mails, fetched, tmpfiles, openfds, exc>>
  /\ UNCHANGED rssVars

\* lines 229-247: one iteration of the month loop
LoopIteration ==
  /\ pc = "loop"
  /\ idx <= Len(months)
  /\ \E outcome \in GetMonthOutcomes \cup {"decode_fail"} :
       LET r == get_month(idx, tmpfiles, openfds,
                          IF outcome = "decode_fail" THEN "ok" ELSE outcome)
           month == MonthReversed(MonthOf(idx, months[idx]))
           mails1 == mails \o month
       IN /\ tmpfiles' = r.files
          /\ openfds' = r.fds
          /\ fetched' = IF r.fetched THEN Append(fetched, idx) ELSE fetched
          /\ IF ~r.ok
             THEN /\ pc' = "raised"
                  /\ exc' = outcome
                  /\ UNCHANGED <<mails, idx>>
             ELSE IF outcome = "decode_fail" /\ months[idx] > 0
             THEN /\ pc' = "raised"                  \* lines 233-235 raise
                  /\ exc' = outcome
                  /\ UNCHANGED <<mails, idx>>
             ELSE /\ mails' = mails1
                  /\ exc' = exc
                  /\ IF LoopBreaks(mails1, count) \/ idx = Len(months)
                     THEN pc' = "trim" /\ idx' = idx
                     ELSE pc' = "loop" /\ idx' = idx + 1
  /\ UNCHANGED <<months, count>>
  /\ UNCHANGED rssVars

\* lines 249-253: trim and hand the list to printrss
Trim ==
  /\ pc = "trim"
  /\ mails' = Trimmed(mails, count)
  /\ pc' = "printrss"
  /\ UNCHANGED <<months, count, idx, fetched, tmpfiles, openfds, exc>>
  /\ UNCHANGED rssVars

Next == CheckMonths \/ LoopIteration \/ Trim

Spec == Init /\ [][Next]_vars

\* ------------------------------------------------------------ text helpers
\* Text is a sequence of tokens.  A token is one character, or one of the fixed
\* phrases the code searches for or writes, kept whole: the scrubbed-attachment
\* marker, "next part", an entity, "<br/>", ".html", a month name, and a MIME
\* encoded word.
NL == "\n"
Whitespace == {" ", NL, "\t"}
Digits == <<"0", "1", "2", "3", "4", "5", "6", "7", "8", "9">>
DigitSet == {Digits[i] : i \in 1..10}
UpperCase == <<"A", "B", "C", "D", "E", "F", "G", "H", "I", "J", "K", "L", "M",
               "N", "O", "P", "Q", "R", "S", "T", "U", "V", "W", "X", "Y", "Z">>
LowerCase == <<"a", "b", "c", "d", "e", "f", "g", "h", "i", "j", "k", "l", "m",
               "n", "o", "p", "q", "r", "s", "t", "u", "v", "w", "x", "y", "z">>
LetterSet == {UpperCase[i] : i \in 1..26} \cup {LowerCase[i] : i \in 1..26}
\* \w of the re module
WordSet == LetterSet \cup DigitSet \cup {"_"}

\* str.lower()
LowerChar(c) ==
  IF \E i \in 1..26 : UpperCase[i] = c
  THEN LowerCase[CHOOSE i \in 1..26 : UpperCase[i] = c]
  ELSE c
Lower(s) == [i \in 1..Len(s) |-> LowerChar(s[i])]

DigitValue(c) == (CHOOSE i \in 1..10 : Digits[i] = c) - 1

\* int() of a run of decimal digits
RECURSIVE ToInt(_)
ToInt(s) == IF s = <<>> THEN 0 ELSE 10 * ToInt(SubSeq(s, 1, Len(s) - 1)) + DigitValue(s[Len(s)])

\* str() of a natural number
RECURSIVE ToText(_)
ToText(n) == IF n < 10 THEN <<Digits[n + 1]>> ELSE ToText(n \div 10) \o <<Digits[(n % 10) + 1]>>

IsPrefix(p, s) == Len(p) <= Len(s) /\ SubSeq(s, 1, Len(p)) = p

\* the first position >= p of s whose token is not in set (Len(s) + 1 if none)
RECURSIVE SkipWhile(_, _, _)
SkipWhile(s, p, set) ==
  IF p <= Len(s) /\ s[p] \in set THEN SkipWhile(s, p + 1, set) ELSE p

\* the first position >= p of s whose token is in set (Len(s) + 1 if none)
RECURSIVE SkipUntil(_, _, _)
SkipUntil(s, p, set) ==
  IF p <= Len(s) /\ s[p] \notin set THEN SkipUntil(s, p + 1, set) ELSE p

\* the first position >= p of s holding token c (0 if none): str.find
RECURSIVE Find(_, _, _)
Find(s, c, p) ==
  IF p > Len(s) THEN 0 ELSE IF s[p] = c THEN p ELSE Find(s, c, p + 1)

\* str.strip(chars)
RECURSIVE StripLeft(_, _)
StripLeft(s, set) == IF s # <<>> /\ Head(s) \in set THEN StripLeft(Tail(s), set) ELSE s
RECURSIVE StripRight(_, _)
StripRight(s, set) ==
  IF s # <<>> /\ s[Len(s)] \in set THEN StripRight(SubSeq(s, 1, Len(s) - 1), set) ELSE s
Strip(s, set) == StripRight(StripLeft(s, set), set)

\* str.split(sep) on one separator token, every piece kept
RECURSIVE SplitOn(_, _)
SplitOn(s, sep) ==
  LET i == Find(s, sep, 1)
  IN IF i = 0 THEN <<s>>
     ELSE <<SubSeq(s, 1, i - 1)>> \o SplitOn(SubSeq(s, i + 1, Len(s)), sep)

\* str.split(): the maximal runs of non-whitespace
Words(s) == SelectSeq(SplitOn([i \in 1..Len(s) |-> IF s[i] \in Whitespace THEN " " ELSE s[i]], " "),
                      LAMBDA w : w # <<>>)

\* str.replace(old, new)
RECURSIVE Replace(_, _, _)
Replace(s, old, new) ==
  IF s = <<>> THEN <<>>
  ELSE IF IsPrefix(old, s) THEN new \o Replace(SubSeq(s, Len(old) + 1, Len(s)), old, new)
  ELSE <<Head(s)>> \o Replace(Tail(s), old, new)

\* cgi.escape(s): quote defaults to False, so only &, < and > are replaced
EscapeChar(c) ==
  CASE c = "&" -> "&amp;"
    [] c = "<" -> "&lt;"
    [] c = ">" -> "&gt;"
    [] OTHER -> c

Escape(s) == [i \in 1..Len(s) |-> EscapeChar(s[i])]

\* make_header(decode_header(s)) as text: an encoded word is replaced by the
\* text it encodes, everything else is kept.
EncodedLt == "=?utf-8?q?=3C?="
DecodeToken(c) == IF c = EncodedLt THEN "<" ELSE c
DecodeHeader(s) == [i \in 1..Len(s) |-> DecodeToken(s[i])]

\* ----------------------------------------------------- dates and links
\* email.utils._monthnames and _daynames
MonthNames ==
  <<<<"j", "a", "n">>,
    <<"f", "e", "b">>,
    <<"m", "a", "r">>,
    <<"a", "p", "r">>,
    <<"m", "a", "y">>,
    <<"j", "u", "n">>,
    <<"j", "u", "l">>,
    <<"a", "u", "g">>,
    <<"s", "e", "p">>,
    <<"o", "c", "t">>,
    <<"n", "o", "v">>,
    <<"d", "e", "c">>,
    <<"j", "a", "n", "u", "a", "r", "y">>,
    <<"f", "e", "b", "r", "u", "a", "r", "y">>,
    <<"m", "a", "r", "c", "h">>,
    <<"a", "p", "r", "i", "l">>,
    <<"m", "a", "y">>,
    <<"j", "u", "n", "e">>,
    <<"j", "u", "l", "y">>,
    <<"a", "u", "g", "u", "s", "t">>,
    <<"s", "e", "p", "t", "e", "m", "b", "e", "r">>,
    <<"o", "c", "t", "o", "b", "e", "r">>,
    <<"n", "o", "v", "e", "m", "b", "e", "r">>,
    <<"d", "e", "c", "e", "m", "b", "e", "r">>>>

DayNames ==
  {<<"m", "o", "n">>,
   <<"t", "u", "e">>,
   <<"w", "e", "d">>,
   <<"t", "h", "u">>,
   <<"f", "r", "i">>,
   <<"s", "a", "t">>,
   <<"s", "u", "n">>}

\* %B of time.strftime in the C locale
FullMonthName ==
  <<"January", "February", "March", "April", "May", "June",
    "July", "August", "September", "October", "November", "December">>

AllDigits(w) == w # <<>> /\ \A i \in 1..Len(w) : w[i] \in DigitSet

MonthIndex(w) == IF \E i \in 1..24 : MonthNames[i] = w
                 THEN CHOOSE i \in 1..24 : MonthNames[i] = w
                 ELSE 0

\* email.utils.parsedate(date): None (ok is FALSE), or the fields of the
\* parsed date.  The day name is dropped, a missing zone is filled in, day and
\* month may be swapped, the time is hh:mm or hh:mm:ss, and a two-digit year
\* is widened.
NotParsed == [ok |-> FALSE]

WidenYear(y) == IF y >= 100 THEN y ELSE IF y > 68 THEN y + 1900 ELSE y + 2000

ParsedFields(dd, mi, yy, tm) ==
  IF mi = 0 \/ Len(tm) \notin {2, 3} THEN NotParsed
  ELSE IF ~(AllDigits(yy) /\ AllDigits(dd) /\ \A i \in 1..Len(tm) : AllDigits(tm[i]))
  THEN NotParsed
  ELSE [ok |-> TRUE,
        year |-> WidenYear(ToInt(yy)),
        month |-> IF mi > 12 THEN mi - 12 ELSE mi,
        day |-> ToInt(dd),
        hour |-> ToInt(tm[1]),
        min |-> ToInt(tm[2]),
        sec |-> IF Len(tm) = 3 THEN ToInt(tm[3]) ELSE 0]

\* "if mm not in _monthnames: dd, mm = mm, dd.lower()"
ParsedSwap(mi1, mi2, w1, w2, yy, tm) ==
  IF mi2 # 0 THEN ParsedFields(w1, mi2, yy, tm) ELSE ParsedFields(w2, mi1, yy, tm)

\* with the day name dropped: at least dd, mm, yy and tm are needed
ParsedWords(w) ==
  IF Len(w) < 4 THEN NotParsed
  ELSE ParsedSwap(MonthIndex(Lower(w[1])), MonthIndex(Lower(w[2])), w[1], w[2], w[3],
                  SplitOn(w[4], ":"))

DropDayName(w) ==
  IF w # <<>> /\ (w[1][Len(w[1])] = "," \/ Lower(w[1]) \in DayNames) THEN Tail(w) ELSE w

ParseDate(date) == ParsedWords(DropDayName(Words(date)))

\* time.strftime raises ValueError for a field outside its range
StrftimeRaises(d) == d.day > 31 \/ d.hour > 23 \/ d.min > 59 \/ d.sec > 61

\* The month name written before the year.
StrftimeMonthFirst(d) == <<FullMonthName[d.month], "-">> \o ToText(d.year)

\* time.strftime("%Y-%B", date)
Strftime(d) == ToText(d.year) \o <<"-", FullMonthName[d.month]>>

\* "{:06d}".format(n): zero-padded to a width of 6, the sign counted
Format06d(n) ==
  LET digits == ToText(IF n < 0 THEN 0 - n ELSE n)
      width == IF n < 0 THEN 5 ELSE 6
      pad == [i \in 1..Max(0, width - Len(digits)) |-> "0"]
  IN (IF n < 0 THEN <<"-">> ELSE <<>>) \o pad \o digits

\* re.match(r'\[\w+ (\d+)\].*', s): group 1, or NoMatch (group 1 is never
\* empty).  Each greedy run is followed by a token outside its class, so no
\* backtracking can succeed.
NoMatch == <<>>

SubjectMatch(s) ==
  IF s = <<>> \/ s[1] # "[" THEN NoMatch
  ELSE LET a == SkipWhile(s, 2, WordSet)
       IN IF a = 2 \/ a > Len(s) \/ s[a] # " " THEN NoMatch
          ELSE LET b == SkipWhile(s, a + 1, DigitSet)
               IN IF b = a + 1 \/ b > Len(s) \/ s[b] # "]" THEN NoMatch
                  ELSE SubSeq(s, a + 1, b - 1)

\* lines 170-172
ItemLink(archive_url, d, number) ==
  archive_url \o Strftime(d) \o <<"/">> \o Format06d(ToInt(number) - 1) \o <<".html">>

\* ------------------------------------------------------------- printrss
\* Python truthiness of a text or None
Truthy(x) == x # NoneVal /\ x # <<>>

NextPart == "next part"
Marker == "A non-text attachment was scrubbed"
\* formatdate(): the time of the run
BuildTime == <<"B", "T">>

\* MailmanArchive.get_title: self._soup.html.head.title.string.  Each attribute
\* of the chain is None when the tag is missing, and an attribute of None
\* raises AttributeError; .string of a title without text is None.
get_title(soup) ==
  IF ~soup.html \/ ~soup.head \/ ~soup.title
  THEN [raised |-> TRUE, value |-> NoneVal]
  ELSE [raised |-> FALSE, value |-> IF soup.string = <<>> THEN NoneVal ELSE soup.string]

\* The end (exclusive) of a match of  -+\s+next part\s+-+$  that starts at p,
\* 0 if there is none.
DelimiterEnd(s, p) ==
  LET a == SkipWhile(s, p, {"-"})
      b == SkipWhile(s, a, Whitespace)
      c == b + 1
      d == SkipWhile(s, c, Whitespace)
      e == SkipWhile(s, d, {"-"})
  IN IF /\ a > p
        /\ b > a
        /\ b <= Len(s)
        /\ s[b] = NextPart
        /\ d > c
        /\ e > d
        /\ (e > Len(s) \/ s[e] = NL)
     THEN e ELSE 0

\* re.split of the MULTILINE pattern: a match starts only at a line start
RECURSIVE SplitParts(_, _, _)
SplitParts(s, p, start) ==
  IF p > Len(s) THEN <<SubSeq(s, start, Len(s))>>
  ELSE LET e == IF p = 1 \/ s[p - 1] = NL THEN DelimiterEnd(s, p) ELSE 0
       IN IF e # 0 THEN <<SubSeq(s, start, p - 1)>> \o SplitParts(s, e, e)
          ELSE SplitParts(s, p + 1, start)

\* lines 185-187
BodyParts(body) ==
  LET parts == SplitParts(body, 1, 1)
  IN [k \in 1..Len(parts) |-> Strip(parts[k], Whitespace)]

\* get_part_field: the first line whose lower case starts with name; the text
\* after its first colon, stripped.  parts[1] of a line without a colon raises
\* IndexError; no such line returns None.
RECURSIVE FieldScan(_, _)
FieldScan(lines, name) ==
  IF lines = <<>> THEN [raised |-> FALSE, value |-> NoneVal]
  ELSE LET line == Head(lines)
       IN IF IsPrefix(name, Lower(line))
          THEN LET i == Find(line, ":", 1)
               IN IF i = 0 THEN [raised |-> TRUE, value |-> NoneVal]
                  ELSE [raised |-> FALSE,
                        value |-> Strip(SubSeq(line, i + 1, Len(line)), Whitespace)]
          ELSE FieldScan(Tail(lines), name)

get_part_field(part, name) == FieldScan(SplitOn(part, NL), name)

\* urlparse(url).netloc: a scheme is split off at the first colon when what
\* precedes it is a letter followed by scheme characters; a netloc is read only
\* after "//", up to the next "/", "?" or "#".
UrlNetloc(url) ==
  LET i == Find(url, ":", 1)
      scheme == /\ i > 1
                /\ url[1] \in LetterSet
                /\ \A k \in 1..(i - 1) : url[k] \in LetterSet \cup DigitSet \cup {"+", "-", "."}
      rest == IF scheme THEN SubSeq(url, i + 1, Len(url)) ELSE url
  IN IF Len(rest) >= 2 /\ rest[1] = "/" /\ rest[2] = "/"
     THEN SubSeq(rest, 3, SkipUntil(rest, 3, {"/", "?", "#"}) - 1)
     ELSE <<>>

Contains(s, token) == \E i \in 1..Len(s) : s[i] = token

\* One written line: its element, the item it belongs to (0: the channel), the
\* body segment an enclosure comes from, and the text put into it.
Line(tag, item, text) == [tag |-> tag, item |-> item, seg |-> 0, text |-> text]

FieldType == <<"t", "y", "p", "e">>
FieldSize == <<"s", "i", "z", "e">>
FieldUrl == <<"u", "r", "l">>

\* lines 191-204: the enclosures of the segments after the first, segment k
\* being parts[k]
RECURSIVE Enclosures(_, _, _)
Enclosures(parts, k, item) ==
  IF k > Len(parts) THEN [lines |-> <<>>, raised |-> NoExc]
  ELSE IF ~Contains(parts[k], Marker) THEN Enclosures(parts, k + 1, item)
  ELSE
    LET mime_type == get_part_field(parts[k], FieldType)
        size == get_part_field(parts[k], FieldSize)
        url == get_part_field(parts[k], FieldUrl)
    IN IF mime_type.raised \/ size.raised \/ url.raised
       THEN [lines |-> <<>>, raised |-> "IndexError"]
       ELSE
         LET rest == Enclosures(parts, k + 1, item)
         IN IF /\ Truthy(mime_type.value) /\ Truthy(size.value) /\ Truthy(url.value)
               /\ UrlNetloc(url.value) # <<>>
            THEN [lines |-> <<[tag |-> "enclosure", item |-> item, seg |-> k,
                               text |-> <<url.value, size.value, mime_type.value>>]>>
                            \o rest.lines,
                  raised |-> rest.raised]
            ELSE rest

\* lines 143-154: the channel pubDate, written inside the loop
ChannelPubDate(mail, rendered) ==
  IF rendered THEN <<>>
  ELSE IF Truthy(mail.date) THEN <<Line("pubDate", 0, Escape(mail.date))>>
  ELSE <<Line("pubDate", 0, Escape(BuildTime))>>

\* lines 156-178: <item> up to the guid
ItemHead(a, mail, i) ==
  LET author == IF Truthy(mail.from)
                THEN <<Line("author", i, Escape(Replace(mail.from, <<" ", "a", "t", " ">>, <<"@">>)))>>
                ELSE <<>>
      pubdate == IF Truthy(mail.date) THEN <<Line("pubDate", i, Escape(mail.date))>> ELSE <<>>
      date == IF Truthy(mail.date) THEN ParseDate(mail.date) ELSE NotParsed
      title == DecodeHeader(Escape(mail.subject))
      match == SubjectMatch(title)
      titleline == IF Truthy(mail.subject) THEN <<Line("title", i, title)>> ELSE <<>>
      linked == Truthy(mail.subject) /\ date.ok /\ match # NoMatch
      guid == IF Truthy(mail.message_id)
              THEN <<Line("guid", i, Escape(Strip(mail.message_id, {"<", ">"})))>>
              ELSE <<>>
      upto == <<Line("<item>", i, <<>>)>> \o author \o pubdate \o titleline
  IN IF linked /\ StrftimeRaises(date)
     THEN [lines |-> upto, raised |-> "ValueError"]
     ELSE [lines |-> upto
                     \o (IF linked
                         THEN <<Line("link", i, ItemLink(a.archive_url, date, match))>>
                         ELSE <<>>)
                     \o guid,
           raised |-> NoExc]

\* lines 180-183: get_payload(0) of a multipart message is the first part, a
\* Message object; get_payload() of any other is its text
Body(mail) ==
  IF mail.multipart
  THEN [str |-> FALSE, text |-> mail.payload[1]]
  ELSE [str |-> TRUE, text |-> mail.payload]

\* lines 180-206: the description and the enclosures.  re.split raises
\* TypeError for a body that is not a string.
ItemBody(mail, i) ==
  LET body == Body(mail)
  IN IF ~body.str THEN [lines |-> <<>>, raised |-> "TypeError"]
     ELSE
       LET parts == BodyParts(body.text)
           description == Line("description", i, Replace(parts[1], <<NL>>, <<"<br/>">>))
           enclosures == Enclosures(parts, 2, i)
       IN [lines |-> <<description>> \o enclosures.lines
                     \o (IF enclosures.raised = NoExc THEN <<Line("</item>", i, <<>>)>> ELSE <<>>),
           raised |-> enclosures.raised]

\* lines 142-206: one iteration of "for mail in mails"
PrintItem(a, mail, i, rendered) ==
  LET head == ItemHead(a, mail, i)
      body == ItemBody(mail, i)
  IN IF head.raised # NoExc
     THEN [lines |-> ChannelPubDate(mail, rendered) \o head.lines, raised |-> head.raised]
     ELSE [lines |-> ChannelPubDate(mail, rendered) \o head.lines \o body.lines,
           raised |-> body.raised]

\* ---------------------------------------------------- inputs of printrss
MaxMails == 2

\* 'h://l/'
UrlPlain ==
  <<"h", ":", "/", "/", "l", "/">>

\* 'h://l/?a&b/'
UrlQuery ==
  <<"h", ":", "/", "/", "l", "/", "?", "a", "&", "b", "/">>


\* 'A&B'
TitleAmp ==
  <<"A", "&", "B">>

\* 'Wed, 15 Apr 2020 10:00'
DateApril2020 ==
  <<"W", "e", "d", ",", " ", "1", "5", " ", "A", "p", "r", " ", "2", "0",
    "2", "0", " ", "1", "0", ":", "0", "0">>

\* 'soon'
DateUnparseable ==
  <<"s", "o", "o", "n">>

\* '32 Apr 2020 10:00'
DateDay32 ==
  <<"3", "2", " ", "A", "p", "r", " ", "2", "0", "2", "0", " ", "1", "0",
    ":", "0", "0">>

\* 'j at e'
FromPlain ==
  <<"j", " ", "a", "t", " ", "e">>

\* '"J" <j at e>'
FromQuoted ==
  <<"\"", "J", "\"", " ", "<", "j", " ", "a", "t", " ", "e", ">">>

\* '[project 42] Fix bug'
SubjectProject42 ==
  <<"[", "p", "r", "o", "j", "e", "c", "t", " ", "4", "2", "]", " ", "F",
    "i", "x", " ", "b", "u", "g">>

\* '[p 0]'
SubjectZero ==
  <<"[", "p", " ", "0", "]">>

\* 'Fix'
SubjectNoTag ==
  <<"F", "i", "x">>


\* '[p 7]<encoded word for '<'>'
SubjectEncoded ==
  <<"[", "p", " ", "7", "]", EncodedLt>>

\* '<i@h>'
MessageId ==
  <<"<", "i", "@", "h", ">">>

\* 'hi\nyo'
BodyPlain ==
  <<"h", "i", "\n", "y", "o">>

\* 'b\n- next part -\n<marker>\nType: i/p\nSize: 1 b\nUrl: h://e/x'
BodyAbsolute ==
  <<"b", "\n", "-", " ", NextPart, " ", "-", "\n", Marker, "\n", "T", "y",
    "p", "e", ":", " ", "i", "/", "p", "\n", "S", "i", "z", "e", ":", " ",
    "1", " ", "b", "\n", "U", "r", "l", ":", " ", "h", ":", "/", "/", "e",
    "/", "x">>

\* 'b\n- next part -\n<marker>\nType: i/p\nSize: 1 b\nUrl: ../x'
BodyRelative ==
  <<"b", "\n", "-", " ", NextPart, " ", "-", "\n", Marker, "\n", "T", "y",
    "p", "e", ":", " ", "i", "/", "p", "\n", "S", "i", "z", "e", ":", " ",
    "1", " ", "b", "\n", "U", "r", "l", ":", " ", ".", ".", "/", "x">>

\* 'b\n- next part -\n<marker>\nType: i/p\nUrl: h://e/x'
BodyNoSize ==
  <<"b", "\n", "-", " ", NextPart, " ", "-", "\n", Marker, "\n", "T", "y",
    "p", "e", ":", " ", "i", "/", "p", "\n", "U", "r", "l", ":", " ", "h",
    ":", "/", "/", "e", "/", "x">>

\* 'b\n- next part -\nType: i/p\nSize: 1 b\nUrl: h://e/x'
BodyNoMarker ==
  <<"b", "\n", "-", " ", NextPart, " ", "-", "\n", "T", "y", "p", "e", ":",
    " ", "i", "/", "p", "\n", "S", "i", "z", "e", ":", " ", "1", " ", "b",
    "\n", "U", "r", "l", ":", " ", "h", ":", "/", "/", "e", "/", "x">>

\* 'b\n- next part -\n<marker>\nType i/p\nSize: 1 b\nUrl: h://e/x'
BodyNoColon ==
  <<"b", "\n", "-", " ", NextPart, " ", "-", "\n", Marker, "\n", "T", "y",
    "p", "e", " ", "i", "/", "p", "\n", "S", "i", "z", "e", ":", " ", "1",
    " ", "b", "\n", "U", "r", "l", ":", " ", "h", ":", "/", "/", "e", "/", "x">>

\* 'b\n- next part -\n<marker>\nType: i/p\nSize: 1 b\nUrl: h://e/?a&b'
BodyUrlAmp ==
  <<"b", "\n", "-", " ", NextPart, " ", "-", "\n", Marker, "\n", "T", "y",
    "p", "e", ":", " ", "i", "/", "p", "\n", "S", "i", "z", "e", ":", " ",
    "1", " ", "b", "\n", "U", "r", "l", ":", " ", "h", ":", "/", "/", "e",
    "/", "?", "a", "&", "b">>

\* 'b\n- next part -\n<marker>\nType: i/p\nSize: 1 b\nUrl: h://e/x\n--\nnext part\n--\n<marker>\nTYPE: t\nsize: 2\nURL: //e/y'
BodyTwoNotices ==
  <<"b", "\n", "-", " ", NextPart, " ", "-", "\n", Marker, "\n", "T", "y",
    "p", "e", ":", " ", "i", "/", "p", "\n", "S", "i", "z", "e", ":", " ",
    "1", " ", "b", "\n", "U", "r", "l", ":", " ", "h", ":", "/", "/", "e",
    "/", "x", "\n", "-", "-", "\n", NextPart, "\n", "-", "-", "\n", Marker,
    "\n", "T", "Y", "P", "E", ":", " ", "t", "\n", "s", "i", "z", "e", ":",
    " ", "2", "\n", "U", "R", "L", ":", " ", "/", "/", "e", "/", "y">>

Soup(html, head, title, string) ==
  [html |-> html, head |-> head, title |-> title, string |-> string]

\* The archives: the index documents with a title, with an empty title, without
\* a title element and without a head, and a base URL with a query.
Archives ==
  {[archive_url |-> UrlPlain, soup |-> sp] :
      sp \in {Soup(TRUE, TRUE, TRUE, TitleAmp), Soup(TRUE, TRUE, TRUE, <<>>),
              Soup(TRUE, TRUE, FALSE, <<>>), Soup(TRUE, FALSE, FALSE, <<>>)}}
  \cup {[archive_url |-> UrlQuery, soup |-> Soup(TRUE, TRUE, TRUE, TitleAmp)]}

Mail(date, from, subject, message_id, multipart, payload) ==
  [date |-> date, from |-> from, subject |-> subject, message_id |-> message_id,
   multipart |-> multipart, payload |-> payload]

Dates == {NoneVal, DateApril2020, DateUnparseable, DateDay32}
Subjects == {NoneVal, SubjectProject42, SubjectZero, SubjectNoTag, SubjectEncoded}
Bodies == {BodyAbsolute, BodyRelative, BodyNoSize, BodyNoMarker, BodyNoColon,
           BodyUrlAmp, BodyTwoNotices}

\* The messages: every date with every subject, and each other header and each
\* body varied on its own.
Messages ==
  {Mail(dt, FromPlain, sb, MessageId, FALSE, BodyPlain) : dt \in Dates, sb \in Subjects}
  \cup {Mail(DateApril2020, fr, SubjectNoTag, MessageId, FALSE, BodyPlain) :
          fr \in {NoneVal, FromQuoted}}
  \cup {Mail(DateApril2020, FromPlain, SubjectNoTag, NoneVal, FALSE, BodyPlain)}
  \cup {Mail(DateApril2020, FromPlain, SubjectNoTag, MessageId, FALSE, b) : b \in Bodies}
  \cup {Mail(DateApril2020, FromPlain, SubjectNoTag, MessageId, TRUE, <<BodyPlain>>)}

MailLists == UNION {[1..n -> Messages] : n \in 0..MaxMails}

InitRss ==
  /\ archive \in Archives
  /\ rmails \in MailLists
  /\ fp = <<>>
  /\ rpc = "start"
  /\ ri = 1
  /\ pubdate_rendered = FALSE
  /\ rexc = NoExc
  /\ months = <<>>
  /\ count = 0
  /\ pc = "printrss"
  /\ idx = 1
  /\ mails = <<>>
  /\ fetched = <<>>
  /\ tmpfiles = {}
  /\ openfds = {}
  /\ exc = NoExc

\* lines 127-140: the channel header
RssHeader ==
  /\ rpc = "start"
  /\ LET title == get_title(archive.soup)
         opening == <<Line("<?xml>", 0, <<>>), Line("<rss>", 0, <<>>),
                      Line("<channel>", 0, <<>>),
                      Line("language", 0, Escape(<<"j", "a", "-", "J", "P">>))>>
     IN IF title.raised
        THEN /\ fp' = opening
             /\ rpc' = "raised"
             /\ rexc' = "AttributeError"
        ELSE /\ fp' = opening
                      \o (IF Truthy(title.value)
                          THEN <<Line("title", 0, Escape(title.value)),
                                 Line("description", 0, Escape(title.value))>>
                          ELSE <<>>)
                      \o <<Line("link", 0, Escape(archive.archive_url))>>
             /\ rpc' = "loop"
             /\ rexc' = rexc
  /\ pubdate_rendered' = FALSE
  /\ UNCHANGED <<archive, rmails, ri>>
  /\ UNCHANGED mainVars

\* lines 142-206: one message
RssItem ==
  /\ rpc = "loop"
  /\ ri <= Len(rmails)
  /\ LET r == PrintItem(archive, rmails[ri], ri, pubdate_rendered)
     IN /\ fp' = fp \o r.lines
        /\ rexc' = r.raised
        /\ rpc' = IF r.raised = NoExc THEN "loop" ELSE "raised"
        /\ ri' = IF r.raised = NoExc THEN ri + 1 ELSE ri
  /\ pubdate_rendered' = TRUE
  /\ UNCHANGED <<archive, rmails>>
  /\ UNCHANGED mainVars

\* lines 208-210: the channel is closed
RssFooter ==
  /\ rpc = "loop"
  /\ ri > Len(rmails)
  /\ fp' = fp \o <<Line("</channel>", 0, <<>>), Line("</rss>", 0, <<>>)>>
  /\ rpc' = "done"
  /\ UNCHANGED <<archive, rmails, ri, pubdate_rendered, rexc>>
  /\ UNCHANGED mainVars

NextRss == RssHeader \/ RssItem \/ RssFooter

SpecRss == InitRss /\ [][NextRss]_vars

\* ---------------------------------------------- properties of printrss
Positions(tag, item) == {k \in 1..Len(fp) : fp[k].tag = tag /\ fp[k].item = item}

TextsOf(tag, item) ==
  LET lines == SelectSeq(fp, LAMBDA l : l.tag = tag /\ l.item = item)
  IN [k \in 1..Len(lines) |-> lines[k].text]

\* The items whose lines up to the guid are all written: the finished ones, and
\* the one whose body raised.
HeadWritten(i) ==
  \/ i < ri
  \/ i = ri /\ rpc = "raised" /\ rexc \in {"TypeError", "IndexError"}

\* The items written to their closing tag.
Finished(i) == i < ri

\* The claim's preconditions for a link: the decoded subject matches and the
\* date header parses.
C2_Matches(m) == Truthy(m.subject) /\ SubjectMatch(DecodeHeader(m.subject)) # NoMatch
C2_Parses(m) == Truthy(m.date) /\ ParseDate(m.date).ok
C2_Number(m) == ToInt(SubjectMatch(DecodeHeader(m.subject))) - 1

\* n at a width of at least six, zero-padded, the sign counted
C2_Padded(n) ==
  IF n >= 0
  THEN [k \in 1..(6 - Len(ToText(n))) |-> "0"] \o ToText(n)
  ELSE <<"-">> \o [k \in 1..(5 - Len(ToText(0 - n))) |-> "0"] \o ToText(0 - n)

C2_MonthYear(m) ==
  <<FullMonthName[ParseDate(m.date).month], "-">> \o ToText(ParseDate(m.date).year)

C2_YearMonth(m) ==
  ToText(ParseDate(m.date).year) \o <<"-", FullMonthName[ParseDate(m.date).month]>>

IsEscaped(text) == \A k \in 1..Len(text) : text[k] \notin {"&", "<", ">", "\""}

\* C3: every value put into element text or an attribute has each of & < > "
\* in escaped form; only the item description is exempt.
C3_InsertedTextEscaped ==
  \A k \in 1..Len(fp) :
     CASE fp[k].tag = "enclosure" -> \A j \in 1..3 : IsEscaped(fp[k].text[j])
       [] fp[k].tag = "description" /\ fp[k].item > 0 -> TRUE
       [] OTHER -> IsEscaped(fp[k].text)

\* The field scan as the claim words it: the first line whose lower case starts
\* with the label, the value being the stripped text after its first colon; a
\* field is found when that value is not empty.
C4_LabelLines(lines, name) == {j \in 1..Len(lines) : IsPrefix(name, Lower(lines[j]))}

C4_ValueOf(line) ==
  IF Find(line, ":", 1) = 0 THEN <<>>
  ELSE Strip(SubSeq(line, Find(line, ":", 1) + 1, Len(line)), Whitespace)

C4_Field(part, name) ==
  LET lines == SplitOn(part, NL)
      found == C4_LabelLines(lines, name)
  IN IF found = {} THEN <<>>
     ELSE C4_ValueOf(lines[CHOOSE j \in found : \A h \in found : j <= h])

C4_Complete(part) ==
  /\ Contains(part, Marker)
  /\ C4_Field(part, FieldType) # <<>>
  /\ C4_Field(part, FieldSize) # <<>>
  /\ C4_Field(part, FieldUrl) # <<>>
  /\ UrlNetloc(C4_Field(part, FieldUrl)) # <<>>

C4_EnclosuresOf(i, k) ==
  LET lines == SelectSeq(fp, LAMBDA l : l.tag = "enclosure" /\ l.item = i /\ l.seg = k)
  IN [j \in 1..Len(lines) |-> lines[j].text]

\* C4: a segment after the delimiter yields exactly one enclosure {url, length,
\* type} when it holds the marker, all three fields and an absolute URL, and no
\* enclosure otherwise; rendering goes on without error.
C4_EnclosureIffComplete ==
  /\ rexc # "IndexError"
  /\ \A i \in 1..Len(rmails) :
        (Finished(i) /\ ~rmails[i].multipart) =>
           LET parts == BodyParts(rmails[i].payload)
           IN \A k \in 2..Len(parts) :
                 C4_EnclosuresOf(i, k) =
                    IF C4_Complete(parts[k])
                    THEN << <<C4_Field(parts[k], FieldUrl), C4_Field(parts[k], FieldSize),
                              C4_Field(parts[k], FieldType)>> >>
                    ELSE <<>>

\* C5: a written feed holds exactly one channel pubDate, after the channel link
\* and before the first item; it is the date of the first message if that
\* exists, else the build time, also for a feed without messages.
C5_OneChannelPubDate ==
  rpc = "done" =>
     /\ Cardinality(Positions("pubDate", 0)) = 1
     /\ \A k \in Positions("pubDate", 0) :
           /\ \E j \in Positions("link", 0) : j < k
           /\ \A j \in 1..Len(fp) : fp[j].tag = "<item>" => k < j
           /\ fp[k].text = IF rmails # <<>> /\ Truthy(rmails[1].date)
                           THEN Escape(rmails[1].date)
                           ELSE Escape(BuildTime)

\* C7: get_title never raises; the channel title and description are written
\* when the document has a title text and left out when it has none, and the
\* rest of the feed is written.
C7_TitleAbsenceTolerated ==
  /\ rexc # "AttributeError"
  /\ rpc # "start" =>
        LET present == archive.soup.html /\ archive.soup.head /\ archive.soup.title
                       /\ archive.soup.string # <<>>
        IN /\ TextsOf("title", 0) = IF present THEN <<Escape(archive.soup.string)>> ELSE <<>>
           /\ TextsOf("description", 0) = TextsOf("title", 0)
           /\ Positions("link", 0) # {}

\* The raw body text as the claim words it: the payload of the first part of a
\* multipart message, the whole payload of any other.
C9_RawBody(mail) == IF mail.multipart THEN mail.payload[1] ELSE mail.payload

\* C9: the description of every message, multipart or not, is the segment of its
\* raw body text before the first delimiter, stripped, with the line-break
\* marker for every newline; no message makes the step fail.
C9_DescriptionFromFirstPart ==
  /\ rexc # "TypeError"
  /\ \A i \in 1..Len(rmails) :
        Finished(i) =>
           TextsOf("description", i) =
              <<Replace(Strip(SplitParts(C9_RawBody(rmails[i]), 1, 1)[1], Whitespace),
                        <<NL>>, <<"<br/>">>)>>

\* ------------------------------------------------- properties of main()
\* Every month's messages newest first, the months in index order.
RECURSIVE NewestFirstUpTo(_)
NewestFirstUpTo(k) ==
  IF k = 0 THEN <<>>
  ELSE NewestFirstUpTo(k - 1) \o [i \in 1..months[k] |-> <<k, months[k] + 1 - i>>]

RECURSIVE TotalBefore(_)
TotalBefore(k) == IF k <= 1 THEN 0 ELSE TotalBefore(k - 1) + months[k - 1]

TotalMessages == TotalBefore(Len(months) + 1)

\* C1: for every count >= 0 the list main() hands to printrss is the first
\* min(count, total) elements of the months' messages, months in index order
\* and each month newest first; its length is min(count, total).
C1_SelectionIsPrefix ==
  (pc = "printrss" /\ count >= 0) =>
     /\ mails = SubSeq(NewestFirstUpTo(Len(months)), 1, Min(count, TotalMessages))
     /\ Len(mails) = Min(count, TotalMessages)
     /\ Len(mails) <= count

\* C1 witness: two months of 3 and 2 messages, count 2: the list is cut to the
\* two newest messages of the first month and the second month was never loaded.
C1_Witness ==
  /\ pc = "printrss"
  /\ months = <<3, 2>>
  /\ count = 2
  /\ mails = << <<1, 3>>, <<1, 2>> >>
  /\ fetched = <<1>>

\* C6: for every count <= 0 and every non-empty month list the list handed to
\* printrss is empty.
C6_NonPositiveCountIsEmpty ==
  (pc = "printrss" /\ count <= 0 /\ Len(months) > 0) => mails = <<>>

\* C8: for every count >= 1 the months are fetched in index order, each at most
\* once, and the month at position k is fetched if and only if the months before
\* it hold fewer than count messages.
C8_FetchOrderAndStop ==
  count >= 1 =>
     /\ fetched = [i \in 1..Len(fetched) |-> i]
     /\ \A i \in 1..Len(fetched) : TotalBefore(fetched[i]) < count
     /\ pc \in {"trim", "printrss"} =>
           \A k \in 1..Len(months) :
              (k \in {fetched[i] : i \in 1..Len(fetched)}) <=> (TotalBefore(k) < count)

\* C8 witness: months of 3 and 2 messages with count 3: only the first is fetched.
C8_Witness ==
  /\ pc = "printrss"
  /\ months = <<3, 2>>
  /\ count = 3
  /\ fetched = <<1>>
  /\ Len(mails) = 3

\* C10: when a get_month call has ended, on whatever exit path, its staging file
\* is deleted and its descriptor closed.
C10_StagingReleased ==
  /\ tmpfiles = {}
  /\ openfds = {}

====
